---- MODULE Spec2Model ----
(***************************************************************************)
(* Model of haystackapi/parser.py: the format selector (suffix_to_mode,    *)
(* mode_to_suffix, _parse_mode) and the parsing entry points (parse,       *)
(* parse_grid, parse_scalar); and of haystackapi/providers/sql_ts.py: the  *)
(* encoding of time-series values (_hs_to_timestream_type,                 *)
(* _cast_timeserie_to_hs) and the batched write of import_ts_in_db.        *)
(*                                                                         *)
(* Python values are records tagged by `type`.  A text is a sequence of    *)
(* lexemes: NL is the newline character, every other lexeme stands for a   *)
(* run of characters without a newline (`ver:"3.0"`, a column name, a      *)
(* scalar, a comma).  A function of the program is an operator that        *)
(* returns its outcome (return value or raised exception) together with    *)
(* the effects of the call: the warnings logged and the codec calls made.  *)
(* The functions of the parser are pure: a behaviour of Spec is one call,   *)
(* whose name and arguments the initial state holds (pc = "call") and      *)
(* whose outcome and effects the state after it holds (pc = "done").  A    *)
(* behaviour of TsSpec is one call of the provider; import_ts_in_db takes  *)
(* one step per write_records call (pc = "write", loop_i the variable i).  *)
(***************************************************************************)
EXTENDS Integers, Sequences, FiniteSets, TLC

VARIABLES pc, op, args, out, log, calls, decoded, loop_i

vars == <<pc, op, args, out, log, calls, decoded, loop_i>>

----------------------------------------------------------------------------
(* Bounds of the model *)

MaxChunks == 5

MaxArr == 3

MaxRows == 2

----------------------------------------------------------------------------
(* Python values and outcomes *)

NL == "\n"

Str(cs) == [type |-> "str", chars |-> cs]

Bytes(cs) == [type |-> "bytes", chars |-> cs]

None == [type |-> "NoneType"]

Return(v) == [status |-> "return", value |-> v]

Raise(cls) == [status |-> "raise", exc |-> cls]

IsReturn(o) == o.status = "return"

IsRaise(o) == o.status = "raise"

RECURSIVE Concat(_)
Concat(ss) == IF ss = <<>> THEN <<>> ELSE Head(ss) \o Concat(Tail(ss))

Range(s) == {s[i] : i \in 1..Len(s)}

----------------------------------------------------------------------------
(* Format selector *)

MODE_ZINC == Str(<<"t","e","x","t","/","z","i","n","c">>)

MODE_JSON == Str(<<"a","p","p","l","i","c","a","t","i","o","n","/","j","s","o","n">>)

MODE_CSV == Str(<<"t","e","x","t","/","c","s","v">>)

SUFFIX_ZINC == Str(<<".","z","i","n","c">>)

SUFFIX_JSON == Str(<<".","j","s","o","n">>)

SUFFIX_CSV == Str(<<".","c","s","v">>)

(* '.csv' mapped to MODE_JSON *)
_suffix_to_mode_CsvAsJson == {<<SUFFIX_ZINC, MODE_ZINC>>, <<SUFFIX_JSON, MODE_JSON>>, <<SUFFIX_CSV, MODE_JSON>>}

(* The dict _suffix_to_mode as a set of <<key, value>> pairs *)
_suffix_to_mode == {<<SUFFIX_ZINC, MODE_ZINC>>, <<SUFFIX_JSON, MODE_JSON>>, <<SUFFIX_CSV, MODE_CSV>>}

(* The dict _mode_to_suffix as a set of <<key, value>> pairs *)
_mode_to_suffix == {<<MODE_ZINC, SUFFIX_ZINC>>, <<MODE_JSON, SUFFIX_JSON>>, <<MODE_CSV, SUFFIX_CSV>>}

(* dict.get(key, None) *)
DictGet(d, key) ==
    IF \E kv \in d : kv[1] = key
    THEN (CHOOSE kv \in d : kv[1] = key)[2]
    ELSE None

suffix_to_mode(ext) == DictGet(_suffix_to_mode, ext)

mode_to_suffix(mode) == DictGet(_mode_to_suffix, mode)

Uppers == <<"A","B","C","D","E","F","G","H","I","J","K","L","M","N","O","P","Q","R","S","T","U","V","W","X","Y","Z">>

Lowers == <<"a","b","c","d","e","f","g","h","i","j","k","l","m","n","o","p","q","r","s","t","u","v","w","x","y","z">>

(* str.lower() on one character *)
LowerChar(c) ==
    IF \E i \in 1..26 : Uppers[i] = c
    THEN Lowers[CHOOSE i \in 1..26 : Uppers[i] = c]
    ELSE c

UpperChar(c) ==
    IF \E i \in 1..26 : Lowers[i] = c
    THEN Uppers[CHOOSE i \in 1..26 : Lowers[i] = c]
    ELSE c

(* str(mode).lower(): str() of a str is itself, of None is 'None', of bytes is its repr *)
StrLower(mode) ==
    LET s == CASE mode.type = "str" -> mode.chars
               [] mode.type = "bytes" -> <<"b", "'">> \o mode.chars \o <<"'">>
               [] OTHER -> <<"N","o","n","e">>
    IN  [i \in 1..Len(s) |-> LowerChar(s[i])]

Warning(alias, constant) == [alias |-> alias, use |-> constant]

UnrecognisedMode == [cls |-> "ValueError", msg |-> "Unrecognised mode, should be MODE_ZINC or MODE_JSON"]

(* The warning for 'zinc' is not logged *)
ParseAlias_NoWarning(mode) ==
    CASE mode = <<"z","i","n","c">> ->
           [out |-> Return(MODE_ZINC), log |-> <<>>]
      [] mode = <<"j","s","o","n">> ->
           [out |-> Return(MODE_JSON), log |-> <<Warning("json", "MODE_JSON")>>]
      [] mode = <<"c","s","v">> ->
           [out |-> Return(MODE_JSON), log |-> <<Warning("csv", "MODE_CSV")>>]
      [] OTHER ->
           [out |-> Raise(UnrecognisedMode), log |-> <<>>]

(* Anything else is taken for Zinc, with a warning, in place of the raise *)
ParseAlias_DefaultZinc(mode) ==
    CASE mode = <<"z","i","n","c">> ->
           [out |-> Return(MODE_ZINC), log |-> <<Warning("zinc", "MODE_ZINC")>>]
      [] mode = <<"j","s","o","n">> ->
           [out |-> Return(MODE_JSON), log |-> <<Warning("json", "MODE_JSON")>>]
      [] mode = <<"c","s","v">> ->
           [out |-> Return(MODE_JSON), log |-> <<Warning("csv", "MODE_CSV")>>]
      [] OTHER ->
           [out |-> Return(MODE_ZINC), log |-> <<Warning("zinc", "MODE_ZINC")>>]

(* _parse_mode, lines 64-75: mode is str(mode).lower() *)
ParseAlias(mode) ==
    CASE mode = <<"z","i","n","c">> ->
           [out |-> Return(MODE_ZINC), log |-> <<Warning("zinc", "MODE_ZINC")>>]
      [] mode = <<"j","s","o","n">> ->
           [out |-> Return(MODE_JSON), log |-> <<Warning("json", "MODE_JSON")>>]
      [] mode = <<"c","s","v">> ->
           [out |-> Return(MODE_JSON), log |-> <<Warning("csv", "MODE_CSV")>>]
      [] OTHER ->
           [out |-> Raise(UnrecognisedMode), log |-> <<>>]

(* _parse_mode(mode): the outcome and the warnings logged *)
_parse_mode(mode) ==
    IF mode \in {MODE_ZINC, MODE_JSON, MODE_CSV}
    THEN [out |-> Return(mode), log |-> <<>>]
    ELSE ParseAlias(StrLower(mode))

----------------------------------------------------------------------------
(* Texts, decoding and the two regular expressions *)

(* A str whose content is a JSON document, given by the value it denotes *)
JsonText(v) == [type |-> "str", json |-> v]

IsStr(x) == x.type = "str"

IsJsonText(x) == x.type = "str" /\ "json" \in DOMAIN x

IsCharText(x) == x.type = "str" /\ "chars" \in DOMAIN x

(* The byte 0xFF, which no UTF-8 text contains *)
BadByte == "\\xff"

UnicodeDecodeError == [cls |-> "UnicodeDecodeError", msg |-> "invalid start byte"]

(* bytes.decode(encoding=charset): ASCII bytes decode to themselves; 0xFF is
   invalid in utf-8 and is y-diaeresis in latin-1 *)
Decode(b, charset) ==
    IF charset = "utf-8" /\ \E i \in 1..Len(b.chars) : b.chars[i] = BadByte
    THEN Raise(UnicodeDecodeError)
    ELSE Return(Str([i \in 1..Len(b.chars) |->
                        IF b.chars[i] = BadByte THEN "y:" ELSE b.chars[i]]))

(* The span <<p, q>> of the leftmost, longest match of TRAILING_NL_RE = \n+$ in
   cs, or <<>> when there is none.  $ matches at the end of the string and
   before a newline that ends the string. *)
TRAILING_NL_RE(cs) ==
    LET n == Len(cs)
        AtDollar(k) == k = n + 1 \/ (k = n /\ cs[n] = NL)
        Matches(p, q) == /\ p <= q
                         /\ \A i \in p..q : cs[i] = NL
                         /\ AtDollar(q + 1)
        Starts == {p \in 1..n : \E q \in p..n : Matches(p, q)}
    IN  IF Starts = {} THEN <<>>
        ELSE LET p == CHOOSE a \in Starts : \A b \in Starts : a <= b
                 q == CHOOSE a \in p..n : Matches(p, a) /\ \A b \in p..n : Matches(p, b) => b <= a
             IN  <<p, q>>

(* TRAILING_NL_RE.sub('\n', s): the one possible match is replaced by one newline *)
TrailingNlSub(s) ==
    IF IsJsonText(s) THEN s
    ELSE LET m == TRAILING_NL_RE(s.chars)
         IN  IF m = <<>> THEN s
             ELSE Str(SubSeq(s.chars, 1, m[1] - 1) \o <<NL>> \o SubSeq(s.chars, m[2] + 1, Len(s.chars)))

(* GRID_SEP as \n\n+, without the lookbehind: the match takes the newline
   that ends the body before it *)
GRID_SEP_NoLookbehind(cs, from) ==
    LET n == Len(cs)
        Starts == {p \in from..(n - 1) : cs[p] = NL /\ cs[p + 1] = NL}
    IN  IF Starts = {} THEN <<>>
        ELSE LET p == CHOOSE a \in Starts : \A b \in Starts : a <= b
                 q == CHOOSE a \in p..n :
                          /\ \A i \in p..a : cs[i] = NL
                          /\ (a = n \/ cs[a + 1] # NL)
             IN  <<p, q>>

(* The span of the leftmost, longest match of GRID_SEP = (?<=\n)\n+ in cs at or
   after position from, or <<>> *)
GRID_SEP(cs, from) ==
    LET n == Len(cs)
        Starts == {p \in from..n : cs[p] = NL /\ p > 1 /\ cs[p - 1] = NL}
    IN  IF Starts = {} THEN <<>>
        ELSE LET p == CHOOSE a \in Starts : \A b \in Starts : a <= b
                 q == CHOOSE a \in p..n :
                          /\ \A i \in p..a : cs[i] = NL
                          /\ (a = n \/ cs[a + 1] # NL)
             IN  <<p, q>>

RECURSIVE GridSepSplitFrom(_, _)
GridSepSplitFrom(cs, from) ==
    LET m == GRID_SEP(cs, from)
    IN  IF m = <<>> THEN <<Str(SubSeq(cs, from, Len(cs)))>>
        ELSE <<Str(SubSeq(cs, from, m[1] - 1))>> \o GridSepSplitFrom(cs, m[2] + 1)

(* GRID_SEP.split(s): the list of the pieces between the matches *)
GridSepSplit(s) ==
    IF IsJsonText(s) THEN <<s>> ELSE GridSepSplitFrom(s.chars, 1)

JSONDecodeError == [cls |-> "JSONDecodeError", msg |-> "Expecting value"]

(* json.loads(s): a text made of Zinc lexemes and newlines is no JSON document *)
json_loads(s) ==
    IF IsJsonText(s) /\ s.json.type # "invalid"
    THEN Return(s.json)
    ELSE Raise(JSONDecodeError)

----------------------------------------------------------------------------
(* The Grid data model and the codecs of the three formats (zincparser,
   jsonparser, csvparser and the serializer), from sections 3, 4.4 and 4.5 of
   the specification *)

MetaToks == {"m1", "m2"}

ColNames == {"c1", "c2"}

Scalars == {"s1", "s2"}

Null == "null"

Grid(metadata, columns, rows) ==
    [type |-> "Grid", metadata |-> metadata, columns |-> columns, rows |-> rows]

MalformedGrid == [cls |-> "MalformedGrid", msg |-> "grid"]

MalformedScalar == [cls |-> "MalformedScalar", msg |-> "scalar"]

MalformedVersion == [cls |-> "MalformedVersion", msg |-> "version"]

UnsupportedKind == [cls |-> "UnsupportedKind", msg |-> "kind"]

IsDistinct(s) == \A i, j \in 1..Len(s) : s[i] = s[j] => i = j

(* The pieces of cs between the occurrences of sep, empty pieces included *)
RECURSIVE SplitOn(_, _)
SplitOn(cs, sep) ==
    IF \E i \in 1..Len(cs) : cs[i] = sep
    THEN LET i == CHOOSE a \in 1..Len(cs) : cs[a] = sep /\ \A b \in 1..(a - 1) : cs[b] # sep
         IN  <<SubSeq(cs, 1, i - 1)>> \o SplitOn(SubSeq(cs, i + 1, Len(cs)), sep)
    ELSE <<cs>>

(* The lines of a body; the newline that ends the last line is optional *)
Lines(cs) ==
    LET ps == SplitOn(cs, NL)
    IN  IF ps[Len(ps)] = <<>> THEN SubSeq(ps, 1, Len(ps) - 1) ELSE ps

IsMetaList(ms) == (\A i \in 1..Len(ms) : ms[i] \in MetaToks) /\ IsDistinct(ms)

IsColumnField(f) == f # <<>> /\ f[1] \in ColNames /\ IsMetaList(Tail(f))

IsCellField(f) == f = <<>> \/ (Len(f) = 1 /\ f[1] \in Scalars \cup {"N"})

CellValue(f) == IF f = <<>> \/ f[1] = "N" THEN Null ELSE f[1]

(* The rows of a text grid: each line holds at most one field per column,
   omitted trailing cells read as null *)
TextRows(lines, names) ==
    [i \in 1..Len(lines) |->
        LET fs == SplitOn(lines[i], ",")
        IN  [c \in Range(names) |->
                LET k == CHOOSE j \in 1..Len(names) : names[j] = c
                IN  IF k <= Len(fs) THEN CellValue(fs[k]) ELSE Null]]

IsTextRows(lines, n) ==
    \A i \in 1..Len(lines) :
        LET fs == SplitOn(lines[i], ",")
        IN  Len(fs) <= n /\ \A k \in 1..Len(fs) : IsCellField(fs[k])

Columns(cfs) == [i \in 1..Len(cfs) |-> [name |-> cfs[i][1], meta |-> Tail(cfs[i])]]

ColumnNames(cfs) == [i \in 1..Len(cfs) |-> cfs[i][1]]

ZincGridOfParts(meta, cfs, rls) ==
    IF (\E i \in 1..Len(cfs) : ~IsColumnField(cfs[i]))
       \/ ~IsDistinct(ColumnNames(cfs)) \/ ~IsTextRows(rls, Len(cfs))
    THEN Raise(MalformedGrid)
    ELSE Return(Grid(meta, Columns(cfs), TextRows(rls, ColumnNames(cfs))))

ZincGridOfLines(ls) ==
    IF Len(ls) < 2 \/ ls[1] = <<>> \/ ls[1][1] # "v" \/ ~IsMetaList(Tail(ls[1]))
    THEN Raise(MalformedGrid)
    ELSE ZincGridOfParts(Tail(ls[1]), SplitOn(ls[2], ","), SubSeq(ls, 3, Len(ls)))

(* Zinc grid: `ver:"X.Y" {meta}`, the column line, then one row per line *)
parse_zinc_grid(s) ==
    IF ~IsCharText(s) THEN Raise(MalformedGrid) ELSE ZincGridOfLines(Lines(s.chars))

CsvGridOfParts(cfs, rls) ==
    IF (\E i \in 1..Len(cfs) : Len(cfs[i]) # 1 \/ cfs[i][1] \notin ColNames)
       \/ ~IsDistinct(ColumnNames(cfs)) \/ ~IsTextRows(rls, Len(cfs))
    THEN Raise(MalformedGrid)
    ELSE Return(Grid(<<>>, Columns(cfs), TextRows(rls, ColumnNames(cfs))))

CsvGridOfLines(ls) ==
    IF Len(ls) < 1 THEN Raise(MalformedGrid)
    ELSE CsvGridOfParts(SplitOn(ls[1], ","), SubSeq(ls, 2, Len(ls)))

(* CSV grid: the first line holds the column names, no metadata anywhere *)
parse_csv_grid(s) ==
    IF ~IsCharText(s) THEN Raise(MalformedGrid) ELSE CsvGridOfLines(Lines(s.chars))

(* A JSON grid object: meta (with ver), cols in order, rows keyed by column name *)
JsonGrid(meta, cols, rows) == [type |-> "dict", meta |-> meta, cols |-> cols, rows |-> rows]

IsJsonGridDict(d) ==
    /\ d.type = "dict"
    /\ d.meta # <<>> /\ d.meta[1] = "ver" /\ IsMetaList(Tail(d.meta))
    /\ d.cols # <<>>
    /\ \A i \in 1..Len(d.cols) : d.cols[i].name \in ColNames /\ IsMetaList(d.cols[i].meta)
    /\ IsDistinct([i \in 1..Len(d.cols) |-> d.cols[i].name])
    /\ \A i \in 1..Len(d.rows) :
          /\ DOMAIN d.rows[i] \subseteq {d.cols[k].name : k \in 1..Len(d.cols)}
          /\ \A c \in DOMAIN d.rows[i] : d.rows[i][c] \in Scalars

GridOfDict(d) ==
    Grid(Tail(d.meta), d.cols,
         [i \in 1..Len(d.rows) |->
             [c \in {d.cols[k].name : k \in 1..Len(d.cols)} |->
                 IF c \in DOMAIN d.rows[i] THEN d.rows[i][c] ELSE Null]])

JsonGridOfValue(v) ==
    IF IsRaise(v) THEN v
    ELSE IF ~IsJsonGridDict(v.value) THEN Raise(MalformedGrid)
    ELSE Return(GridOfDict(v.value))

(* JSON grid: a str is decoded first; a cell a row does not define is null *)
parse_json_grid(x) == JsonGridOfValue(IF IsStr(x) THEN json_loads(x) ELSE Return(x))

(* Version(version): from a "major.minor" string *)
Version(v) ==
    IF v.type = "Version" THEN Return(v)
    ELSE IF v.type = "str" /\ Len(v.chars) = 3 /\ v.chars[2] = "."
              /\ v.chars[1] \in {"2", "3"} /\ v.chars[3] \in {"0"}
         THEN Return([type |-> "Version", major |-> v.chars[1], minor |-> v.chars[3]])
         ELSE Raise(MalformedVersion)

LATEST_VER == [type |-> "Version", major |-> "3", minor |-> "0"]

(* A scalar token of the text formats; NA is legal from version 3.0 on *)
TextScalar(s, version) ==
    IF ~IsCharText(s) THEN Raise(MalformedScalar)
    ELSE IF s.chars = <<"NA">>
         THEN IF version.major = "3" THEN Return("NA") ELSE Raise(UnsupportedKind)
         ELSE IF IsCellField(s.chars) THEN Return(CellValue(s.chars))
         ELSE Raise(MalformedScalar)

parse_zinc_scalar(s, version) == TextScalar(s, version)

parse_csv_scalar(s, version) == TextScalar(s, version)

JsonScalarOfValue(v, version) ==
    IF IsRaise(v) THEN v
    ELSE IF v.value = None THEN Return(Null)
    ELSE IF IsCharText(v.value) THEN TextScalar(v.value, version)
    ELSE Raise(MalformedScalar)

(* A JSON scalar: the JSON string holding the scalar, or JSON null *)
parse_json_scalar(s, version) ==
    JsonScalarOfValue(IF IsStr(s) THEN json_loads(s) ELSE Return(s), version)

(* Serialization of a Grid to a Zinc body *)
RECURSIVE JoinWith(_, _)
JoinWith(ss, sep) ==
    IF ss = <<>> THEN <<>>
    ELSE IF Len(ss) = 1 THEN ss[1]
    ELSE ss[1] \o <<sep>> \o JoinWith(Tail(ss), sep)

dump_zinc_grid(g) ==
    Str(<<"v">> \o g.metadata \o <<NL>>
        \o JoinWith([i \in 1..Len(g.columns) |-> <<g.columns[i].name>> \o g.columns[i].meta], ",")
        \o <<NL>>
        \o Concat([i \in 1..Len(g.rows) |->
              JoinWith([k \in 1..Len(g.columns) |->
                          IF g.rows[i][g.columns[k].name] = Null
                          THEN <<"N">> ELSE <<g.rows[i][g.columns[k].name]>>], ",") \o <<NL>>]))

(* Serialization of a Grid to a JSON document; null cells are left out *)
dump_json_grid(g) ==
    JsonText(JsonGrid(<<"ver">> \o g.metadata, g.columns,
                      [i \in 1..Len(g.rows) |->
                          [c \in {n \in DOMAIN g.rows[i] : g.rows[i][n] # Null} |-> g.rows[i][c]]]))

(* Serialization of a Grid to a CSV body: the column names, then the rows *)
dump_csv_grid(g) ==
    Str(JoinWith([i \in 1..Len(g.columns) |-> <<g.columns[i].name>>], ",") \o <<NL>>
        \o Concat([i \in 1..Len(g.rows) |->
              JoinWith([k \in 1..Len(g.columns) |->
                          IF g.rows[i][g.columns[k].name] = Null
                          THEN <<>> ELSE <<g.rows[i][g.columns[k].name]>>], ",") \o <<NL>>]))

dump_grid(g, mode) ==
    CASE mode = MODE_ZINC -> dump_zinc_grid(g)
      [] mode = MODE_JSON -> dump_json_grid(g)
      [] mode = MODE_CSV -> dump_csv_grid(g)

----------------------------------------------------------------------------
(* The parsing entry points.  Each returns [out, log, calls, decoded]: the
   outcome, the warnings logged, the codec calls made in order, and whether
   bytes.decode was reached.  A function is a chain of operators, one per
   stretch of its body, each handed what the stretch before it computed. *)

CodecCall(codec, arg) == [codec |-> codec, arg |-> arg]

Effect(o, l, c, d) == [out |-> o, log |-> l, calls |-> c, decoded |-> d]

IsBytes(x) == x.type = "bytes"

(* if isinstance(x, bytes): x = x.decode(encoding=charset) *)
DecodeIfBytes(x, charset) == IF IsBytes(x) THEN Decode(x, charset) ELSE Return(x)

(* Every mode is handed to the Zinc codec *)
DispatchGrid_AlwaysZinc(m, t, l, d) ==
    Effect(parse_zinc_grid(t), l, <<CodecCall("parse_zinc_grid", t)>>, d)

(* parse_grid, lines 130-136: the codec of the mode m is called on the text t *)
DispatchGrid(m, t, l, d) ==
    CASE m = MODE_ZINC -> Effect(parse_zinc_grid(t), l, <<CodecCall("parse_zinc_grid", t)>>, d)
      [] m = MODE_JSON -> Effect(parse_json_grid(t), l, <<CodecCall("parse_json_grid", t)>>, d)
      [] m = MODE_CSV -> Effect(parse_csv_grid(t), l, <<CodecCall("parse_csv_grid", t)>>, d)

(* parse_grid, lines 124-136, pm being what _parse_mode returned *)
GridOfMode(pm, grid_str, charset) ==
    IF IsRaise(pm.out) THEN Effect(pm.out, pm.log, <<>>, FALSE)
    ELSE IF IsRaise(DecodeIfBytes(grid_str, charset))
         THEN Effect(DecodeIfBytes(grid_str, charset), pm.log, <<>>, TRUE)
         ELSE DispatchGrid(pm.out.value, DecodeIfBytes(grid_str, charset).value, pm.log, IsBytes(grid_str))

(* parse_grid(grid_str, mode, charset) *)
parse_grid(grid_str, mode, charset) == GridOfMode(_parse_mode(mode), grid_str, charset)

(* parse_scalar, lines 151-157 *)
DispatchScalar(m, t, version, l, d) ==
    CASE m = MODE_ZINC -> Effect(parse_zinc_scalar(t, version), l, <<CodecCall("parse_zinc_scalar", t)>>, d)
      [] m = MODE_JSON -> Effect(parse_json_scalar(t, version), l, <<CodecCall("parse_json_scalar", t)>>, d)
      [] m = MODE_CSV -> Effect(parse_csv_scalar(t, version), l, <<CodecCall("parse_csv_scalar", t)>>, d)

(* parse_scalar, lines 143-157, pm being what _parse_mode returned *)
ScalarOfMode(pm, scalar, version, charset) ==
    IF IsRaise(pm.out) THEN Effect(pm.out, pm.log, <<>>, FALSE)
    ELSE IF IsRaise(Version(version)) THEN Effect(Version(version), pm.log, <<>>, FALSE)
    ELSE IF IsRaise(DecodeIfBytes(scalar, charset))
         THEN Effect(DecodeIfBytes(scalar, charset), pm.log, <<>>, TRUE)
         ELSE DispatchScalar(pm.out.value, DecodeIfBytes(scalar, charset).value, Version(version).value,
                             pm.log, IsBytes(scalar))

(* parse_scalar(scalar, mode, version, charset) *)
parse_scalar(scalar, mode, version, charset) ==
    ScalarOfMode(_parse_mode(mode), scalar, version, charset)

PyList(items) == [type |-> "list", items |-> items]

TypeError == [cls |-> "TypeError", msg |-> "type"]

(* iter(x), as map() takes it: the items of a list, the characters of a str;
   int, bool and None are not iterable *)
Iter(x) ==
    CASE x.type = "list" -> Return(x.items)
      [] IsCharText(x) -> Return([i \in 1..Len(x.chars) |-> Str(<<x.chars[i]>>)])
      [] OTHER -> Raise(TypeError)

(* An item that fails to parse is left out of the list *)
MapStep_SkipFailed(acc, r) ==
    Effect(IF IsRaise(r.out) THEN acc.out ELSE Return(PyList(acc.out.value.items \o <<r.out.value>>)),
           acc.log \o r.log, acc.calls \o r.calls, acc.decoded)

(* One step of map(): the effect r of parsing one item joins the grids and effects so far *)
MapStep(acc, r) ==
    Effect(IF IsRaise(r.out) THEN r.out ELSE Return(PyList(acc.out.value.items \o <<r.out.value>>)),
           acc.log \o r.log, acc.calls \o r.calls, acc.decoded)

(* list(map(_parse, grid_data)), _parse = partial(parse_grid, mode=mode,
   charset=charset): the items are parsed in order and the first exception
   ends the call.  acc holds the grids and effects so far. *)
RECURSIVE MapParse(_, _, _, _)
MapParse(items, mode, charset, acc) ==
    IF items = <<>> \/ IsRaise(acc.out) THEN acc
    ELSE MapParse(Tail(items), mode, charset, MapStep(acc, parse_grid(Head(items), mode, charset)))

(* The grid bodies of a text: GRID_SEP.split(TRAILING_NL_RE.sub('\n', grid_str))
   when not single, [grid_str] when single *)
TextGridData(grid_str, single) ==
    IF single THEN Return(PyList(<<grid_str>>))
    ELSE IF ~IsStr(grid_str) THEN Raise(TypeError)
    ELSE Return(PyList(GridSepSplit(TrailingNlSub(grid_str))))

(* A dict is wrapped in a list *)
WrapDict(v) ==
    IF IsReturn(v) /\ v.value.type = "dict" THEN Return(PyList(<<v.value>>)) ELSE v

(* The grid objects of a JSON input: json.loads of a str, a dict wrapped in a list *)
JsonGridData(grid_str) ==
    WrapDict(IF IsStr(grid_str) THEN json_loads(grid_str) ELSE Return(grid_str))

(* grids[-1] in place of grids[0] *)
SelectResult_Last(grids, single) ==
    IF single
    THEN IF grids.items # <<>> THEN grids.items[Len(grids.items)] ELSE None
    ELSE grids

(* if single: grids[0] if grids else None; else grids *)
SelectResult(grids, single) ==
    IF single
    THEN IF grids.items # <<>> THEN grids.items[1] ELSE None
    ELSE grids

(* parse, lines 112-117, r being the effect of list(map(...)) *)
ResultOfGrids(r, single) ==
    IF IsRaise(r.out) THEN r
    ELSE Effect(Return(SelectResult(r.out.value, single)), r.log, r.calls, r.decoded)

(* parse, lines 111-117: it is iter(grid_data) *)
GridsOfItems(it, m, charset, single, l, d) ==
    IF IsRaise(it) THEN Effect(it, l, <<>>, d)
    ELSE ResultOfGrids(MapParse(it.value, m, charset, Effect(Return(PyList(<<>>)), l, <<>>, d)), single)

(* parse, lines 111-117 *)
GridsOfData(grid_data, m, charset, single, l, d) ==
    IF IsRaise(grid_data) THEN Effect(grid_data, l, <<>>, d)
    ELSE GridsOfItems(Iter(grid_data.value), m, charset, single, l, d)

(* parse, lines 92-117: the mode m is normalised, the text t is decoded *)
ParseText(m, t, charset, single, l, d) ==
    GridsOfData(IF m = MODE_JSON THEN JsonGridData(t) ELSE TextGridData(t, single),
                m, charset, single, l, d)

(* parse, lines 85-117, pm being what _parse_mode returned *)
ParseOfMode(pm, grid_str, charset, single) ==
    IF IsRaise(pm.out) THEN Effect(pm.out, pm.log, <<>>, FALSE)
    ELSE IF IsRaise(DecodeIfBytes(grid_str, charset))
         THEN Effect(DecodeIfBytes(grid_str, charset), pm.log, <<>>, TRUE)
         ELSE ParseText(pm.out.value, DecodeIfBytes(grid_str, charset).value, charset, single,
                        pm.log, IsBytes(grid_str))

(* parse(grid_str, mode, charset, single) *)
parse(grid_str, mode, charset, single) == ParseOfMode(_parse_mode(mode), grid_str, charset, single)

----------------------------------------------------------------------------
(* The inputs the operations are called with *)

(* Every spelling of the word w in upper and lower case *)
Spellings(w) ==
    {Str([i \in 1..Len(w) |-> IF i \in U THEN UpperChar(w[i]) ELSE w[i]]) : U \in SUBSET (1..Len(w))}

Aliases == Spellings(<<"z","i","n","c">>) \cup Spellings(<<"j","s","o","n">>) \cup Spellings(<<"c","s","v">>)

CanonicalModes == {MODE_ZINC, MODE_JSON, MODE_CSV}

OtherModes ==
    { Str(<<"T","E","X","T","/","Z","I","N","C">>), Str(<<"x","m","l">>), Str(<<>>),
      Str(<<"z","i","n","c"," ">>), Str(<<"z","i","n">>), Str(<<"t","e","x","t","/","j","s","o","n">>),
      Str(<<".","c","s","v">>), Bytes(<<"z","i","n","c">>), Bytes(<<"t","e","x","t","/","c","s","v">>), None }

ModeInputs == CanonicalModes \cup Aliases \cup OtherModes

(* The modes the entry points are called with: the canonical ones, some aliases, some others *)
CallModes ==
    CanonicalModes
    \cup { Str(<<"z","i","n","c">>), Str(<<"Z","I","N","C">>), Str(<<"J","s","o","n">>), Str(<<"c","s","v">>),
           Str(<<"x","m","l">>), None }

(* The modes parse_grid is called with *)
GridModes == CanonicalModes \cup {Str(<<"Z","i","n","c">>), Str(<<"c","s","v">>), Str(<<"x","m","l">>)}

LookupArgs ==
    ModeInputs \cup {SUFFIX_ZINC, SUFFIX_JSON, SUFFIX_CSV, Str(<<".","Z","I","N","C">>), Str(<<".","t","x","t">>)}

SeqsUpTo(S, n) == UNION {[1..k -> S] : k \in 0..n}

Chunks == { <<NL>>, <<"v", NL, "c1", NL>>, <<"c1", NL>>, <<"s1">> }

(* The texts made of at most MaxChunks chunks *)
Texts == {Str(Concat(cs)) : cs \in SeqsUpTo(Chunks, MaxChunks)}

Col(name, meta) == [name |-> name, meta |-> meta]

GoodDict1 == JsonGrid(<<"ver">>, <<Col("c1", <<>>)>>, <<>>)

GoodDict2 == JsonGrid(<<"ver", "m1">>, <<Col("c1", <<>>)>>, <<[c \in {"c1"} |-> "s1"]>>)

BadDict == JsonGrid(<<>>, <<Col("c1", <<>>)>>, <<>>)

PyInt == [type |-> "int", n |-> 1]

PyBool == [type |-> "bool", b |-> TRUE]

JsonArrays == {PyList(xs) : xs \in SeqsUpTo({GoodDict1, GoodDict2, BadDict, PyInt}, MaxArr)}

JsonValues ==
    {GoodDict1, GoodDict2, BadDict} \cup JsonArrays
    \cup {Str(<<>>), Str(<<"a">>), Str(<<"a", "b">>), PyInt, PyBool, None, [type |-> "invalid"]}

(* JSON documents as text, and grid objects and lists of them already decoded *)
JsonInputs == {JsonText(v) : v \in JsonValues} \cup {GoodDict1, BadDict} \cup JsonArrays

BytesInputs ==
    { Bytes(<<"v", NL, "c1", NL>>), Bytes(<<"v", NL, "c1", NL, NL, "v", NL, "c1", NL, NL>>),
      Bytes(<<"v", NL, "c1", NL, BadByte, NL>>), Bytes(<<"c1", NL, BadByte, NL, NL, BadByte>>) }

ParseInputs == Texts \cup JsonInputs \cup BytesInputs

Charsets(x) == IF IsBytes(x) THEN {"utf-8", "latin-1"} ELSE {"utf-8"}

MetaLists == {ms \in SeqsUpTo(MetaToks, 2) : IsDistinct(ms)}

ColumnLists ==
    {cs \in SeqsUpTo({Col(n, m) : n \in ColNames, m \in {<<>>, <<"m1">>}}, 2) :
        cs # <<>> /\ IsDistinct([i \in 1..Len(cs) |-> cs[i].name])}

(* The grids of at most MaxRows rows, each cell s1 or null *)
Grids ==
    UNION { {Grid(md, cs, rs) : rs \in SeqsUpTo([{cs[i].name : i \in 1..Len(cs)} -> {"s1", Null}], MaxRows)} :
            md \in MetaLists, cs \in ColumnLists }

MalformedBodies ==
    { Str(<<>>), Str(<<NL>>), Str(<<"v", NL>>), Str(<<"c1", NL, "s1", NL>>), Str(<<"c1", ",", "c2", NL, "s1", ",", NL>>),
      Str(<<"v", NL, "c1", NL, "s1", ",", "s2", NL>>), Str(<<"v", "m1", "m1", NL, "c1", NL>>),
      Str(<<"v", NL, "c1", ",", "c1", NL>>), Str(<<"v", NL, "c1", NL, "x", NL>>),
      Str(<<"v", NL, "c1", ",", "c2", NL, "s1">>), Str(<<"v", NL, "c1", ",", "c2", NL, ",", "s2", NL, NL>>),
      JsonText(BadDict), JsonText(PyInt), JsonText([type |-> "invalid"]), BadDict,
      Bytes(<<"v", NL, "c1", NL, "s2", NL>>), Bytes(<<"v", NL, "c1", NL, BadByte, NL>>) }

(* The bodies parse_grid is called with: the serializations of the grids, and other texts *)
GridInputs ==
    {dump_zinc_grid(g) : g \in Grids} \cup {dump_json_grid(g) : g \in Grids}
    \cup {dump_csv_grid(g) : g \in Grids} \cup MalformedBodies

ScalarInputs ==
    { Str(<<"s1">>), Str(<<"s2">>), Str(<<"N">>), Str(<<>>), Str(<<"NA">>), Str(<<"x">>),
      JsonText(Str(<<"s1">>)), JsonText(None), JsonText(PyInt), Bytes(<<"s1">>), Bytes(<<BadByte>>) }

VersionInputs == {LATEST_VER, Str(<<"2", ".", "0">>), Str(<<"3", ".", "0">>), Str(<<"x">>)}

----------------------------------------------------------------------------
(* The state: the call, its arguments, and what it did *)

Pending(name, a) ==
    /\ pc = "call"
    /\ op = name
    /\ args = a
    /\ out = Return(None)
    /\ log = <<>>
    /\ calls = <<>>
    /\ decoded = FALSE
    /\ loop_i = 0

Init ==
    \/ \E ext \in LookupArgs : Pending("suffix_to_mode", [ext |-> ext])
    \/ \E mode \in LookupArgs : Pending("mode_to_suffix", [mode |-> mode])
    \/ \E mode \in ModeInputs : Pending("_parse_mode", [mode |-> mode])
    \/ \E grid_str \in ParseInputs, mode \in CallModes, single \in BOOLEAN :
          \E charset \in Charsets(grid_str) :
             Pending("parse", [grid_str |-> grid_str, mode |-> mode, charset |-> charset, single |-> single])
    \/ \E grid_str \in GridInputs, mode \in GridModes :
          \E charset \in Charsets(grid_str) :
             Pending("parse_grid", [grid_str |-> grid_str, mode |-> mode, charset |-> charset])
    \/ \E scalar \in ScalarInputs, mode \in CallModes, version \in VersionInputs :
          \E charset \in Charsets(scalar) :
             Pending("parse_scalar", [scalar |-> scalar, mode |-> mode, version |-> version, charset |-> charset])

Call_suffix_to_mode ==
    /\ pc = "call" /\ op = "suffix_to_mode"
    /\ pc' = "done"
    /\ out' = Return(suffix_to_mode(args.ext))
    /\ UNCHANGED <<op, args, log, calls, decoded, loop_i>>

Call_mode_to_suffix ==
    /\ pc = "call" /\ op = "mode_to_suffix"
    /\ pc' = "done"
    /\ out' = Return(mode_to_suffix(args.mode))
    /\ UNCHANGED <<op, args, log, calls, decoded, loop_i>>

Call_parse_mode ==
    /\ pc = "call" /\ op = "_parse_mode"
    /\ LET r == _parse_mode(args.mode)
       IN  /\ pc' = "done"
           /\ out' = r.out
           /\ log' = r.log
           /\ UNCHANGED <<op, args, calls, decoded, loop_i>>

Call_parse ==
    /\ pc = "call" /\ op = "parse"
    /\ LET r == parse(args.grid_str, args.mode, args.charset, args.single)
       IN  /\ pc' = "done"
           /\ out' = r.out
           /\ log' = r.log
           /\ calls' = r.calls
           /\ decoded' = r.decoded
           /\ UNCHANGED <<op, args, loop_i>>

Call_parse_grid ==
    /\ pc = "call" /\ op = "parse_grid"
    /\ LET r == parse_grid(args.grid_str, args.mode, args.charset)
       IN  /\ pc' = "done"
           /\ out' = r.out
           /\ log' = r.log
           /\ calls' = r.calls
           /\ decoded' = r.decoded
           /\ UNCHANGED <<op, args, loop_i>>

Call_parse_scalar ==
    /\ pc = "call" /\ op = "parse_scalar"
    /\ LET r == parse_scalar(args.scalar, args.mode, args.version, args.charset)
       IN  /\ pc' = "done"
           /\ out' = r.out
           /\ log' = r.log
           /\ calls' = r.calls
           /\ decoded' = r.decoded
           /\ UNCHANGED <<op, args, loop_i>>

(* A Grid that parse_grid returned is serialized in the mode it was parsed in,
   and the serialization is parsed again *)
Call_dump_parse_grid ==
    /\ pc = "done" /\ op = "parse_grid"
    /\ IsReturn(out)
    /\ LET m == _parse_mode(args.mode).out.value
           r == parse_grid(dump_grid(out.value, m), m, "utf-8")
       IN  /\ pc' = "done"
           /\ op' = "dump_parse_grid"
           /\ args' = [grid |-> out.value, mode |-> m]
           /\ out' = r.out
           /\ log' = r.log
           /\ calls' = r.calls
           /\ decoded' = r.decoded
           /\ UNCHANGED loop_i

Next ==
    \/ Call_suffix_to_mode
    \/ Call_mode_to_suffix
    \/ Call_parse_mode
    \/ Call_parse
    \/ Call_parse_grid
    \/ Call_parse_scalar
    \/ Call_dump_parse_grid

Spec == Init /\ [][Next]_vars

----------------------------------------------------------------------------
(* Vocabulary of the properties *)

Done(name) == pc = "done" /\ op = name

ZincAliases == Spellings(<<"z","i","n","c">>)

JsonAliases == Spellings(<<"j","s","o","n">>)

CsvAliases == Spellings(<<"c","s","v">>)

(* The mode arguments that select the Zinc format, those that put parse in a
   text mode and those that put it in the JSON mode.  The alias 'csv' is in
   neither: it is the subject of C7. *)
IsZincArg(mode) == mode = MODE_ZINC \/ mode \in ZincAliases

IsTextModeArg(mode) == IsZincArg(mode) \/ mode = MODE_CSV

IsJsonModeArg(mode) == mode = MODE_JSON \/ mode \in JsonAliases

(* The text parse works on, once its bytes are decoded *)
HasText == IsReturn(DecodeIfBytes(args.grid_str, args.charset))
           /\ IsCharText(DecodeIfBytes(args.grid_str, args.charset).value)

TheText == DecodeIfBytes(args.grid_str, args.charset).value.chars

TextCodec(mode) == IF IsZincArg(mode) THEN "parse_zinc_grid" ELSE "parse_csv_grid"

(* What a codec makes of the body it was called with *)
CodecOutcome(call) ==
    CASE call.codec = "parse_zinc_grid" -> parse_zinc_grid(call.arg)
      [] call.codec = "parse_csv_grid" -> parse_csv_grid(call.arg)
      [] call.codec = "parse_json_grid" -> parse_json_grid(call.arg)

(* A blob of k >= 1 bodies joined by blank lines and followed by newlines: it
   is not empty, does not start with a newline and ends with one.  Its bodies
   are its maximal runs of non-empty lines, each line with its newline. *)
IsBlob(cs) == cs # <<>> /\ cs[1] # NL /\ cs[Len(cs)] = NL

RECURSIVE BodiesOfLines(_, _)
BodiesOfLines(ls, cur) ==
    IF ls = <<>> THEN (IF cur = <<>> THEN <<>> ELSE <<Str(cur)>>)
    ELSE IF Head(ls) = <<>>
         THEN (IF cur = <<>> THEN <<>> ELSE <<Str(cur)>>) \o BodiesOfLines(Tail(ls), <<>>)
         ELSE BodiesOfLines(Tail(ls), cur \o Head(ls) \o <<NL>>)

BodiesOf(cs) == BodiesOfLines(SplitOn(cs, NL), <<>>)

IsPrefix(s, t) == Len(s) <= Len(t) /\ \A i \in 1..Len(s) : s[i] = t[i]

----------------------------------------------------------------------------
(* C1: parse in a text mode with single=false, given k >= 1 bodies joined by
   one or more blank lines and followed by any number of newlines, hands the
   codec the bodies in order and no other text, stopping only at a body the
   codec rejects; when the codec accepts every body it is handed exactly the
   k bodies and parse returns exactly k Grids, the i-th the Grid the codec
   makes of the i-th body on its own. *)
C1_MultiGridSplit ==
    (Done("parse") /\ IsTextModeArg(args.mode) /\ ~args.single /\ HasText /\ IsBlob(TheText)) =>
        /\ IsPrefix(calls, [i \in 1..Len(BodiesOf(TheText)) |->
                               CodecCall(TextCodec(args.mode), BodiesOf(TheText)[i])])
        /\ (\A i \in 1..Len(BodiesOf(TheText)) :
               IsReturn(CodecOutcome(CodecCall(TextCodec(args.mode), BodiesOf(TheText)[i]))))
           => /\ Len(calls) = Len(BodiesOf(TheText))
              /\ out = Return(PyList([i \in 1..Len(BodiesOf(TheText)) |->
                     CodecOutcome(CodecCall(TextCodec(args.mode), BodiesOf(TheText)[i])).value]))

(* Three bodies joined by blank lines give three Grids *)
C1_Witness ==
    /\ Done("parse") /\ IsTextModeArg(args.mode) /\ ~args.single /\ HasText /\ IsBlob(TheText)
    /\ Len(BodiesOf(TheText)) = 3
    /\ IsReturn(out) /\ Len(out.value.items) = 3

----------------------------------------------------------------------------
(* C2: parse with single=true returns the first Grid of the parsed sequence,
   or None when the sequence is empty, and with single=false the whole
   sequence, one Grid per body handed to the codec, in order; in a text mode
   with single=true the codec is called exactly once, with the whole decoded
   text, and the result is never None. *)
C2_SingleAndList ==
    Done("parse") =>
        /\ (IsReturn(out) /\ args.single) =>
              out.value = IF calls = <<>> THEN None ELSE CodecOutcome(calls[1]).value
        /\ (IsReturn(out) /\ ~args.single) =>
              out.value = PyList([i \in 1..Len(calls) |-> CodecOutcome(calls[i]).value])
        /\ (IsTextModeArg(args.mode) /\ args.single /\ HasText) =>
              /\ calls = <<CodecCall(TextCodec(args.mode), Str(TheText))>>
              /\ IsReturn(out) => out.value.type = "Grid"

(* A text with a blank line in it, parsed whole into one Grid *)
C2_Witness ==
    /\ Done("parse") /\ IsTextModeArg(args.mode) /\ args.single /\ HasText
    /\ \E i \in 1..(Len(TheText) - 2) : TheText[i] = NL /\ TheText[i + 1] = NL /\ TheText[i + 2] # NL
    /\ IsReturn(out) /\ out.value.type = "Grid"
    /\ Len(calls) = 1

----------------------------------------------------------------------------
(* C3: in JSON mode parse wraps a decoded object in a one-element sequence,
   uses a decoded array as the sequence of grid objects, and fails, returning
   neither a Grid nor None nor an empty list, for every JSON value that is
   neither an object nor an array, whatever single is.  Any exception raised
   counts as the failure. *)
C3_JsonEnvelope ==
    (Done("parse") /\ IsJsonModeArg(args.mode) /\ IsJsonText(args.grid_str)
       /\ args.grid_str.json.type # "invalid") =>
        CASE args.grid_str.json.type = "dict" ->
               calls = <<CodecCall("parse_json_grid", args.grid_str.json)>>
          [] args.grid_str.json.type = "list" ->
               IsPrefix(calls, [i \in 1..Len(args.grid_str.json.items) |->
                                   CodecCall("parse_json_grid", args.grid_str.json.items[i])])
          [] OTHER -> IsRaise(out)

----------------------------------------------------------------------------
SeveralBodies ==
    IF IsTextModeArg(args.mode) /\ ~args.single /\ HasText
    THEN GridSepSplit(TrailingNlSub(Str(TheText)))
    ELSE IF IsJsonModeArg(args.mode) /\ IsJsonText(args.grid_str) /\ args.grid_str.json.type = "list"
         THEN args.grid_str.json.items
         ELSE <<>>

BodyCodec == IF IsTextModeArg(args.mode) THEN TextCodec(args.mode) ELSE "parse_json_grid"

Fails(i) == IsRaise(CodecOutcome(CodecCall(BodyCodec, SeveralBodies[i])))

(* C4: when parse processes several bodies (a text mode with single=false, or
   a JSON array) and the codec fails on one of them, parse raises that error
   and returns no list, wherever the failing body stands. *)
C4_BatchFailsWhole ==
    Done("parse") =>
        \A i \in 1..Len(SeveralBodies) :
            (Fails(i) /\ \A j \in 1..(i - 1) : ~Fails(j)) =>
                out = CodecOutcome(CodecCall(BodyCodec, SeveralBodies[i]))

(* Two bodies parse and the third does not: parse raises the third one's error *)
C4_Witness ==
    /\ Done("parse")
    /\ Len(SeveralBodies) = 3
    /\ ~Fails(1) /\ ~Fails(2) /\ Fails(3)
    /\ IsRaise(out)
    /\ Len(calls) = 3

----------------------------------------------------------------------------
EntryPoints == {"parse", "parse_grid", "parse_scalar"}

(* C5: _parse_mode maps every spelling of 'zinc' and the canonical Zinc
   identifier to MODE_ZINC; normalizing an alias logs exactly one warning and
   normalizing a canonical identifier logs none; parse, parse_grid and
   parse_scalar given an alias log exactly one warning, however many bodies
   are parsed. *)
C5_AliasWarnsOnce ==
    /\ (Done("_parse_mode") /\ IsZincArg(args.mode)) => out = Return(MODE_ZINC)
    /\ (Done("_parse_mode") /\ args.mode \in Aliases) => Len(log) = 1
    /\ (Done("_parse_mode") /\ args.mode \in CanonicalModes) => log = <<>>
    /\ (pc = "done" /\ op \in EntryPoints /\ args.mode \in Aliases) => Len(log) = 1
    /\ (pc = "done" /\ op \in EntryPoints /\ args.mode \in CanonicalModes) => log = <<>>

(* parse given 'ZINC' parses several bodies and logs one warning *)
C5_Witness ==
    /\ Done("parse") /\ args.mode = Str(<<"Z","I","N","C">>)
    /\ Len(calls) >= 3
    /\ Len(log) = 1

----------------------------------------------------------------------------
(* C6: _parse_mode raises the unrecognised-mode error, and logs no warning,
   for every input that is neither a canonical identifier nor a spelling of
   'zinc', 'json' or 'csv'; parse, parse_grid and parse_scalar given such a
   mode raise that error before decoding the input or calling a codec. *)
C6_UnrecognisedMode ==
    (pc = "done" /\ op \in EntryPoints \cup {"_parse_mode"}
       /\ args.mode \notin CanonicalModes \cup Aliases) =>
        /\ out = Raise(UnrecognisedMode)
        /\ log = <<>>
        /\ calls = <<>>
        /\ decoded = FALSE

(* parse given 'xml' and bytes raises without decoding them *)
C6_Witness ==
    /\ Done("parse") /\ args.mode = Str(<<"x","m","l">>)
    /\ IsBytes(args.grid_str)
    /\ out = Raise(UnrecognisedMode)

----------------------------------------------------------------------------
ModeNamed(name) ==
    CASE name = "MODE_ZINC" -> MODE_ZINC
      [] name = "MODE_JSON" -> MODE_JSON
      [] name = "MODE_CSV" -> MODE_CSV

(* C7: each alias normalizes to the canonical mode its warning names as its
   replacement ('zinc' to MODE_ZINC, 'json' to MODE_JSON, 'csv' to MODE_CSV),
   so parse_grid and parse_scalar given the alias 'csv' call the CSV codec,
   and no two different aliases normalize to the same canonical mode. *)
C7_AliasesIndependent ==
    /\ (Done("_parse_mode") /\ args.mode \in Aliases) =>
          /\ IsReturn(out) /\ Len(log) = 1
          /\ out.value = ModeNamed(log[1].use)
          /\ (args.mode \in CsvAliases <=> out.value = MODE_CSV)
          /\ (args.mode \in JsonAliases <=> out.value = MODE_JSON)
          /\ (args.mode \in ZincAliases <=> out.value = MODE_ZINC)
    /\ (Done("parse_grid") /\ args.mode \in CsvAliases /\ calls # <<>>) =>
          calls[1].codec = "parse_csv_grid"
    /\ (Done("parse_scalar") /\ args.mode \in CsvAliases /\ calls # <<>>) =>
          calls[1].codec = "parse_csv_scalar"

----------------------------------------------------------------------------
(* C8: in a text mode with single=false every trailing newline of the text is
   removed before it is split, so the last body handed to the codec does not
   end with a newline. *)
C8_TrailingNewlinesRemoved ==
    (Done("parse") /\ IsTextModeArg(args.mode) /\ ~args.single /\ HasText /\ IsReturn(out)) =>
        /\ calls # <<>>
        /\ LET last == calls[Len(calls)].arg.chars
           IN  last = <<>> \/ last[Len(last)] # NL

----------------------------------------------------------------------------
(* C9: for the Zinc and JSON modes, serializing a Grid that parse_grid
   returned and parsing the serialization in the same mode returns a Grid
   with the same metadata (keys and order), the same columns (names, order,
   metadata) and the same rows (order, cell values). *)
C9_RoundTrip ==
    (Done("dump_parse_grid") /\ args.mode \in {MODE_ZINC, MODE_JSON}) =>
        /\ IsReturn(out)
        /\ out.value.metadata = args.grid.metadata
        /\ out.value.columns = args.grid.columns
        /\ out.value.rows = args.grid.rows

(* A Grid with two metadata tags, two columns and two different rows goes round in JSON *)
C9_Witness ==
    /\ Done("dump_parse_grid") /\ args.mode = MODE_JSON
    /\ Len(args.grid.metadata) = 2 /\ Len(args.grid.columns) = 2
    /\ Len(args.grid.rows) = 2 /\ args.grid.rows[1] # args.grid.rows[2]
    /\ \E c \in DOMAIN args.grid.rows[1] : args.grid.rows[1][c] = Null
    /\ out = Return(args.grid)

----------------------------------------------------------------------------
(* C10: suffix_to_mode and mode_to_suffix are inverse lookups over the
   bijection '.zinc' - MODE_ZINC, '.json' - MODE_JSON, '.csv' - MODE_CSV, and
   return None, without raising, for every other argument, the aliases
   included. *)
C10_SuffixBijection ==
    /\ Done("suffix_to_mode") =>
          /\ out = Return(CASE args.ext = SUFFIX_ZINC -> MODE_ZINC
                            [] args.ext = SUFFIX_JSON -> MODE_JSON
                            [] args.ext = SUFFIX_CSV -> MODE_CSV
                            [] OTHER -> None)
          /\ args.ext \in {SUFFIX_ZINC, SUFFIX_JSON, SUFFIX_CSV} => mode_to_suffix(out.value) = args.ext
    /\ Done("mode_to_suffix") =>
          /\ out = Return(CASE args.mode = MODE_ZINC -> SUFFIX_ZINC
                            [] args.mode = MODE_JSON -> SUFFIX_JSON
                            [] args.mode = MODE_CSV -> SUFFIX_CSV
                            [] OTHER -> None)
          /\ args.mode \in CanonicalModes => suffix_to_mode(out.value) = args.mode

(* '.csv' looked up: MODE_CSV, which maps back to '.csv' *)
C10_Witness ==
    /\ Done("suffix_to_mode") /\ args.ext = SUFFIX_CSV
    /\ out = Return(MODE_CSV)
    /\ mode_to_suffix(out.value) = SUFFIX_CSV

----------------------------------------------------------------------------
(* The time-series provider (haystackapi/providers/sql_ts.py) *)

MAX_ROWS_BY_WRITE == 100

(* Bounds of the time series: the rows of a series written out in full, and
   the batches of a series that fills them *)
MaxSeries == 2

MaxBatches == 2

----------------------------------------------------------------------------
(* Python numbers and their text.  A text is here a sequence of characters.
   A float is counted in halves (Float(3) is 1.5); an integer wider than the
   model's integers is kept as its quotient and remainder by 10^6. *)

Integer(n) == [type |-> "int", n |-> n]

Float(h) == [type |-> "float", halves |-> h]

Bool(b) == [type |-> "bool", b |-> b]

Wide(q, r) == [q |-> q + (r \div 1000000), r |-> r % 1000000]

DigitChars == <<"0", "1", "2", "3", "4", "5", "6", "7", "8", "9">>

IsDigit(c) == \E d \in 1..10 : DigitChars[d] = c

DigitValue(c) == (CHOOSE d \in 1..10 : DigitChars[d] = c) - 1

(* The decimal digits of n >= 0 *)
RECURSIVE Digits(_)
Digits(n) == IF n < 10 THEN <<DigitChars[n + 1]>> ELSE Digits(n \div 10) \o <<DigitChars[(n % 10) + 1]>>

(* The number a run of digits denotes *)
RECURSIVE DigitsValue(_)
DigitsValue(cs) ==
    IF cs = <<>> THEN 0 ELSE 10 * DigitsValue(SubSeq(cs, 1, Len(cs) - 1)) + DigitValue(cs[Len(cs)])

IsDigits(cs) == cs # <<>> /\ \A k \in 1..Len(cs) : IsDigit(cs[k])

(* str(n) of an int *)
IntStr(n) == IF n < 0 THEN <<"-">> \o Digits(0 - n) ELSE Digits(n)

(* repr of a float: sign, integer part, the point and the fraction *)
FloatStr(h) ==
    LET a == IF h < 0 THEN 0 - h ELSE h
    IN  (IF h < 0 THEN <<"-">> ELSE <<>>) \o Digits(a \div 2) \o <<".">>
        \o (IF a % 2 = 0 THEN <<"0">> ELSE <<"5">>)

(* str(w) of a wide int: the digits of the quotient, then the six digits of
   the remainder *)
WideStr(w) ==
    IF w.q = 0 THEN Digits(w.r)
    ELSE Digits(w.q) \o [k \in 1..(6 - Len(Digits(w.r))) |-> "0"] \o Digits(w.r)

ValueError == [cls |-> "ValueError", msg |-> "value"]

Unsigned(cs) == IF cs # <<>> /\ cs[1] = "-" THEN Tail(cs) ELSE cs

Signed(cs, n) == IF cs # <<>> /\ cs[1] = "-" THEN 0 - n ELSE n

(* int(val): an optional sign and digits *)
int(cs) ==
    IF IsDigits(Unsigned(cs))
    THEN Return(Integer(Signed(cs, DigitsValue(Unsigned(cs)))))
    ELSE Raise(ValueError)

(* int(val) of a text of more digits than the model's integers hold *)
int_wide(cs) ==
    IF ~IsDigits(cs) THEN Raise(ValueError)
    ELSE IF Len(cs) <= 6 THEN Return(Wide(0, DigitsValue(cs)))
    ELSE Return(Wide(DigitsValue(SubSeq(cs, 1, Len(cs) - 6)), DigitsValue(SubSeq(cs, Len(cs) - 5, Len(cs)))))

(* float(val): an optional sign, digits, and an optional point and fraction,
   here a fraction that counts halves *)
FloatOfParts(cs, ps) ==
    IF Len(ps) = 1 /\ IsDigits(ps[1])
    THEN Return(Float(Signed(cs, 2 * DigitsValue(ps[1]))))
    ELSE IF Len(ps) = 2 /\ IsDigits(ps[1]) /\ ps[2] \in {<<"0">>, <<"5">>}
         THEN Return(Float(Signed(cs, 2 * DigitsValue(ps[1]) + (IF ps[2] = <<"5">> THEN 1 ELSE 0))))
         ELSE Raise(ValueError)

float(cs) == FloatOfParts(cs, SplitOn(Unsigned(cs), "."))

(* int(x) of a float truncates towards zero *)
IntOfFloat(h) == IF h < 0 THEN 0 - ((0 - h) \div 2) ELSE h \div 2

----------------------------------------------------------------------------
(* The value kinds of the Haystack type system (datatypes.py), from section 3
   of the specification, and the dates and times of Python.  A datetime is an
   instant (sec seconds after the epoch, and microsecond) with its tzinfo; a
   naive one has no tzinfo and is read in the local zone. *)

Quantity(value, unit) == [type |-> "Quantity", value |-> value, unit |-> unit]

MARKER == [type |-> "MarkerType"]

REMOVE == [type |-> "RemoveType"]

NA == [type |-> "NAType"]

Ref(name, has_value, value) == [type |-> "Ref", name |-> name, has_value |-> has_value, value |-> value]

Coordinate(latitude, longitude) == [type |-> "Coordinate", latitude |-> latitude, longitude |-> longitude]

XStr(encoding, data) == [type |-> "XStr", encoding |-> encoding, data |-> data]

(* XStr.data_to_string(): the payload as text *)
data_to_string(x) == x.data

Naive == "naive"

DateTime(sec, microsecond, tzinfo) ==
    [type |-> "datetime", sec |-> sec, microsecond |-> microsecond, tzinfo |-> tzinfo]

Date(year, month, day) == [type |-> "date", year |-> year, month |-> month, day |-> day]

Time(hour, minute, second, microsecond) ==
    [type |-> "time", hour |-> hour, minute |-> minute, second |-> second, microsecond |-> microsecond]

(* datetime.timestamp() * 1000000, rounded: the instant in microseconds *)
TimestampMicros(x) == Wide(x.sec, x.microsecond)

(* round(x.timestamp()): to the nearest second, a half to the even one *)
RoundTimestamp(x) ==
    IF x.microsecond > 500000 THEN x.sec + 1
    ELSE IF x.microsecond < 500000 THEN x.sec
    ELSE IF x.sec % 2 = 0 THEN x.sec ELSE x.sec + 1

(* datetime.fromtimestamp(n): the naive local datetime of the instant *)
fromtimestamp(n) == DateTime(n, 0, Naive)

(* The days before each month of a year that is not a leap year: the first
   three years of the calendar are not *)
DaysBefore == <<0, 31, 59, 90, 120, 151, 181, 212, 243, 273, 304, 334, 365>>

toordinal(x) == 365 * (x.year - 1) + DaysBefore[x.month] + x.day

MonthOfDay(d) == CHOOSE m \in 1..12 : DaysBefore[m] < d /\ d <= DaysBefore[m + 1]

DateOfDay(year, d) == Date(year, MonthOfDay(d), d - DaysBefore[MonthOfDay(d)])

fromordinal(n) ==
    IF n < 1 THEN Raise(ValueError) ELSE Return(DateOfDay(((n - 1) \div 365) + 1, ((n - 1) % 365) + 1))

(* isinstance(value, cls): bool is a subclass of int, datetime of date *)
IsInstance(value, cls) ==
    \/ value.type = cls
    \/ cls = "int" /\ value.type = "bool"
    \/ cls = "date" /\ value.type = "datetime"

(* The name of a class, as a str *)
Name(cls) == Str(<<cls>>)

(* type(value).__name__ *)
TypeName(value) == Name(value.type)

(* str(b) of a bool *)
BoolStr(b) == IF b THEN <<"T", "r", "u", "e">> ELSE <<"F", "a", "l", "s", "e">>

(* str(x) of a str, a float, a bool, an int and None *)
str(x) ==
    CASE x.type = "str" -> x
      [] x.type = "float" -> Str(FloatStr(x.halves))
      [] x.type = "bool" -> Str(BoolStr(x.b))
      [] x.type = "int" -> Str(IntStr(x.n))
      [] x.type = "NoneType" -> Str(<<"N", "o", "n", "e">>)

----------------------------------------------------------------------------
(* Provider._hs_to_timestream_type and Provider._cast_timeserie_to_hs *)

(* A cast function: the builtin str, or a lambda with the variable `value` of
   the call that made it *)
Lambda(fn, value) == [fn |-> fn, value |-> value]

UnknownType == [cls |-> "ValueError", msg |-> "Unknwon type"]

_hs_to_timestream_type(value) ==
    IF IsInstance(value, "str") THEN Return([cast_fn |-> Lambda("str", value), target_type |-> "VARCHAR"])
    ELSE IF IsInstance(value, "float") THEN Return([cast_fn |-> Lambda("str", value), target_type |-> "DOUBLE"])
    ELSE IF IsInstance(value, "Quantity") THEN Return([cast_fn |-> Lambda("str(x.value)", value), target_type |-> "DOUBLE"])
    ELSE IF IsInstance(value, "bool") THEN Return([cast_fn |-> Lambda("str", value), target_type |-> "BOOLEAN"])
    ELSE IF IsInstance(value, "int") THEN Return([cast_fn |-> Lambda("str", value), target_type |-> "DOUBLE"])
    ELSE IF value = MARKER THEN Return([cast_fn |-> Lambda("str(x is MARKER)", value), target_type |-> "BOOLEAN"])
    ELSE IF value = REMOVE THEN Return([cast_fn |-> Lambda("str(x is REMOVE)", value), target_type |-> "BOOLEAN"])
    ELSE IF value = NA THEN Return([cast_fn |-> Lambda("str(x is NA)", value), target_type |-> "BOOLEAN"])
    ELSE IF IsInstance(value, "Ref") THEN Return([cast_fn |-> Lambda("x.name", value), target_type |-> "VARCHAR"])
    ELSE IF IsInstance(value, "datetime") THEN Return([cast_fn |-> Lambda("str(int(round(x.timestamp())))", value), target_type |-> "BIGINT"])
    ELSE IF IsInstance(value, "date") THEN Return([cast_fn |-> Lambda("str(x.toordinal())", value), target_type |-> "BIGINT"])
    ELSE IF IsInstance(value, "time") THEN Return([cast_fn |-> Lambda("time", value), target_type |-> "BIGINT"])
    ELSE IF IsInstance(value, "Coordinate") THEN Return([cast_fn |-> Lambda("coordinate", value), target_type |-> "VARCHAR"])
    ELSE IF IsInstance(value, "XStr") THEN Return([cast_fn |-> Lambda("xstr", value), target_type |-> "VARCHAR"])
    ELSE IF value = None THEN Return([cast_fn |-> Lambda("str(False)", value), target_type |-> "BOOLEAN"])
    ELSE Raise(UnknownType)

(* cast_fn(x): the text stored for x.  The lambda of an XStr reads the
   variable `value` of the call that made it, not its argument. *)
Cast(cast_fn, x) ==
    CASE cast_fn.fn = "str" -> str(x)
      [] cast_fn.fn = "str(x.value)" -> str(x.value)
      [] cast_fn.fn = "str(x is MARKER)" -> Str(BoolStr(x = MARKER))
      [] cast_fn.fn = "str(x is REMOVE)" -> Str(BoolStr(x = REMOVE))
      [] cast_fn.fn = "str(x is NA)" -> Str(BoolStr(x = NA))
      [] cast_fn.fn = "x.name" -> x.name
      [] cast_fn.fn = "str(int(round(x.timestamp())))" -> Str(IntStr(RoundTimestamp(x)))
      [] cast_fn.fn = "str(x.toordinal())" -> Str(IntStr(toordinal(x)))
      [] cast_fn.fn = "time" ->
            Str(WideStr(Wide((x.hour * 60 + x.minute) * 60 + x.second, x.microsecond)))
      [] cast_fn.fn = "coordinate" ->
            Str(str(x.latitude).chars \o <<",">> \o str(x.longitude).chars)
      [] cast_fn.fn = "xstr" ->
            Str(cast_fn.value.encoding.chars \o <<",">> \o data_to_string(cast_fn.value).chars)
      [] cast_fn.fn = "str(False)" -> Str(BoolStr(FALSE))

(* f(x) of an outcome x that returned, and x itself when it raised *)
QuantityOf(f, unit) == IF IsRaise(f) THEN f ELSE Return(Quantity(f.value, unit))

IntOf(f) == IF IsRaise(f) THEN f ELSE Return(Integer(IntOfFloat(f.value.halves)))

DateTimeOf(n) == IF IsRaise(n) THEN n ELSE Return(fromtimestamp(n.value.n))

DateOf(n) == IF IsRaise(n) THEN n ELSE fromordinal(n.value.n)

TimeOf(int_time) ==
    IF IsRaise(int_time) THEN int_time
    ELSE Return(Time((int_time.value.q \div 60) \div 60, (int_time.value.q \div 60) % 60,
                     int_time.value.q % 60, int_time.value.r))

IndexError == [cls |-> "IndexError", msg |-> "index"]

CoordinateOf(split) ==
    IF Len(split) < 2 THEN Raise(IndexError)
    ELSE IF IsRaise(float(split[1])) THEN float(split[1])
    ELSE IF IsRaise(float(split[2])) THEN float(split[2])
    ELSE Return(Coordinate(float(split[1]).value, float(split[2]).value))

XStrOf(split) ==
    IF Len(split) # 2 THEN Raise(TypeError) ELSE Return(XStr(Str(split[1]), Str(split[2])))

AssertionError == [cls |-> "AssertionError", msg |-> "Unknown type"]

_cast_timeserie_to_hs(val, python_type, unit) ==
    CASE python_type = Name("str") -> Return(val)
      [] python_type = Name("float") -> float(val.chars)
      [] python_type = Name("PintQuantity") -> QuantityOf(float(val.chars), unit)
      [] python_type = Name("Quantity") -> QuantityOf(float(val.chars), unit)
      [] python_type = Name("bool") -> Return(Bool(StrLower(val) = <<"t", "r", "u", "e">>))
      [] python_type = Name("int") -> IntOf(float(val.chars))
      [] python_type = Name("MarkerType") -> Return(IF val.chars # <<>> THEN MARKER ELSE None)
      [] python_type = Name("RemoveType") -> Return(IF val.chars # <<>> THEN REMOVE ELSE None)
      [] python_type = Name("NAType") -> Return(IF val.chars # <<>> THEN NA ELSE None)
      [] python_type = Name("Ref") -> Return(Ref(val, FALSE, None))
      [] python_type = Name("datetime") -> DateTimeOf(int(val.chars))
      [] python_type = Name("date") -> DateOf(int(val.chars))
      [] python_type = Name("time") -> TimeOf(int_wide(val.chars))
      [] python_type = Name("Coordinate") -> CoordinateOf(SplitOn(val.chars, ","))
      [] python_type = Name("XStr") -> XStrOf(SplitOn(val.chars, ","))
      [] python_type = Name("NoneType") -> Return(None)
      [] OTHER -> Raise(AssertionError)

----------------------------------------------------------------------------
(* Provider.import_ts_in_db.  A time series is a Grid of the columns ts and
   val; the provider holds the names of its database and table.  The Version
   of the common attributes, a reading of the clock, is left out. *)

Row(ts, val) == [ts |-> ts, val |-> val]

TimeSeries(rows) == Grid(<<>>, <<Col("ts", <<>>), Col("val", <<>>)>>, rows)

Provider == [_ts_database_name |-> Str(<<"d", "b">>), _ts_table_name |-> Str(<<"h", "a", "y", "s", "t", "a", "c", "k">>)]

Dimension(name, value) == [Name |-> name, Value |-> value]

(* value.unit if isinstance(value, Quantity) else " " *)
Unit(value) == IF IsInstance(value, "Quantity") THEN value.unit ELSE Str(<<" ">>)

(* `if not customer_id: customer_id = None`, and the filter that drops the
   dimension whose value is None *)
CustomerDimension(customer_id) ==
    IF customer_id = None \/ customer_id.chars = <<>>
    THEN <<>>
    ELSE <<Dimension("customer_id", customer_id)>>

common_attributs(value, target_type, entity_id, customer_id) ==
    [ Dimensions |-> <<Dimension("id", entity_id.name),
                       Dimension("hs_type", TypeName(value)),
                       Dimension("unit", Unit(value))>> \o CustomerDimension(customer_id),
      MeasureName |-> "val",
      MeasureValueType |-> target_type,
      TimeUnit |-> "MICROSECONDS" ]

Record(cast_fn, row) ==
    [Time |-> Str(WideStr(TimestampMicros(row.ts))), MeasureValue |-> Cast(cast_fn, row.val)]

(* The list `records`: one record per row, cast by the cast function of the
   first row's val *)
RecordsOfCast(time_series, cast_fn) ==
    [k \in 1..Len(time_series.rows) |-> Record(cast_fn, time_series.rows[k])]

records(time_series) ==
    RecordsOfCast(time_series, _hs_to_timestream_type(time_series.rows[1].val).value.cast_fn)

Min(a, b) == IF a < b THEN a ELSE b

(* records[i:i + MAX_ROWS_BY_WRITE], one row short of the batch *)
Slice_OneShort(rs, i) == SubSeq(rs, i + 1, Min(i + MAX_ROWS_BY_WRITE - 1, Len(rs)))

(* records[i:i + MAX_ROWS_BY_WRITE] *)
Slice(rs, i) == SubSeq(rs, i + 1, Min(i + MAX_ROWS_BY_WRITE, Len(rs)))

(* The arguments of client.write_records *)
write_records(self, time_series, entity_id, customer_id, i) ==
    [ DatabaseName |-> self._ts_database_name,
      TableName |-> self._ts_table_name,
      Records |-> Slice(records(time_series), i),
      CommonAttributes |-> common_attributs(time_series.rows[1].val,
                              _hs_to_timestream_type(time_series.rows[1].val).value.target_type,
                              entity_id, customer_id) ]

LogEntry(level, msg, a) == [level |-> level, msg |-> msg, args |-> a]

RejectedRecordsException(rejected) ==
    [cls |-> "RejectedRecordsException", response |-> [RejectedRecords |-> rejected]]

ClientError == [cls |-> "ThrottlingException", msg |-> "client"]

(* The lines the handler of RejectedRecordsException logs: the error, then
   one line per rejected record, with the ts of the row of the series at the
   record's index *)
RejectedLog(time_series, err) ==
    <<LogEntry("error", "RejectedRecords: %s", <<err>>)>>
    \o [k \in 1..Len(err.response.RejectedRecords) |->
          LogEntry("error", " [%s:%s]: %s",
                   <<err.response.RejectedRecords[k].RecordIndex,
                     time_series.rows[err.response.RejectedRecords[k].RecordIndex + 1].ts,
                     err.response.RejectedRecords[k].Reason>>)]

StatusLog == LogEntry("debug", "WriteRecords Status: [%s]", <<200>>)

----------------------------------------------------------------------------
(* The values, series and calls of the provider *)

Hex == Str(<<"h", "e", "x">>)

TsValues ==
    { Str(<<"a">>), Str(<<"b", ",", "c">>),
      Float(3), Float(-1),
      Integer(5), Integer(-12),
      Quantity(Float(3), Str(<<"k", "W">>)), Quantity(Float(8), Str(<<"m">>)),
      Bool(TRUE), Bool(FALSE),
      MARKER, REMOVE, NA, None,
      Ref(Str(<<"r", "1">>), FALSE, None), Ref(Str(<<"r", "2">>), TRUE, Str(<<"d">>)),
      DateTime(2, 0, Naive), DateTime(2, 0, "UTC"), DateTime(3, 500000, "UTC"), DateTime(1, 250000, "+01:00"),
      Date(1, 1, 1), Date(1, 3, 1), Date(2, 12, 31),
      Time(0, 0, 0, 0), Time(1, 2, 3, 4), Time(23, 59, 59, 999999),
      Coordinate(Float(3), Float(-4)), Coordinate(Float(90), Float(0)),
      XStr(Hex, Str(<<"0", "a">>)), XStr(Hex, Str(<<"f", "f">>)),
      PyList(<<>>) }

Builtins == {"str", "float", "int", "bool", "NoneType"}

Sentinels == {"MarkerType", "RemoveType", "NAType", "NoneType"}

(* The vals of one series: of one kind, or builtin values, or sentinels *)
IsSeriesVals(vs) ==
    \A a \in 1..Len(vs), b \in 1..Len(vs) :
        \/ vs[a].type = vs[b].type
        \/ vs[a].type \in Builtins /\ vs[b].type \in Builtins
        \/ vs[a].type \in Sentinels /\ vs[b].type \in Sentinels

(* The series of the vals vs: row k is of the instant k seconds, k microseconds *)
SeriesOf(vs) == TimeSeries([k \in 1..Len(vs) |-> Row(DateTime(k, k, "UTC"), vs[k])])

ShortSeries == {SeriesOf(vs) : vs \in {s \in SeqsUpTo(TsValues, MaxSeries) : IsSeriesVals(s)}}

(* The lengths next to a multiple of the batch size *)
LongLens == {k * MAX_ROWS_BY_WRITE + d : k \in 1..MaxBatches, d \in {-1, 0, 1}}

LongBases ==
    { <<Float(3), Float(-1)>>, <<MARKER>>, <<XStr(Hex, Str(<<"0", "a">>)), XStr(Hex, Str(<<"f", "f">>))>> }

(* The series of n rows whose vals are those of vs, over and over *)
LongSeries == {SeriesOf([k \in 1..n |-> vs[((k - 1) % Len(vs)) + 1]]) : vs \in LongBases, n \in LongLens}

SeriesInputs == ShortSeries \cup LongSeries

CustomerIds == {None, Str(<<>>), Str(<<"c">>)}

EntityIds == {Ref(Str(<<"e">>), FALSE, None)}

(* The records the service rejects of a batch of n: its first, its last, or both *)
RejectedIndexes(n) == {<<0>>, <<n - 1>>} \cup (IF n > 1 THEN {<<0, n - 1>>} ELSE {})

----------------------------------------------------------------------------
(* The calls of the provider *)

TsInit ==
    \/ \E value \in TsValues : Pending("_hs_to_timestream_type", [value |-> value])
    \/ \E time_series \in SeriesInputs, entity_id \in EntityIds, customer_id \in CustomerIds :
          Pending("import_ts_in_db", [self |-> Provider, time_series |-> time_series,
                                      entity_id |-> entity_id, customer_id |-> customer_id])

Call_hs_to_timestream_type ==
    /\ pc = "call" /\ op = "_hs_to_timestream_type"
    /\ pc' = "done"
    /\ out' = _hs_to_timestream_type(args.value)
    /\ UNCHANGED <<op, args, log, calls, decoded, loop_i>>

(* The text, type name and unit stored for a value are decoded *)
Call_cast_timeserie_to_hs ==
    /\ pc = "done" /\ op = "_hs_to_timestream_type"
    /\ IsReturn(out)
    /\ pc' = "done"
    /\ op' = "_cast_timeserie_to_hs"
    /\ args' = [value |-> args.value, val |-> Cast(out.value.cast_fn, args.value),
                python_type |-> TypeName(args.value), unit |-> Unit(args.value)]
    /\ out' = _cast_timeserie_to_hs(Cast(out.value.cast_fn, args.value), TypeName(args.value), Unit(args.value))
    /\ UNCHANGED <<log, calls, decoded, loop_i>>

(* import_ts_in_db up to its loop: an empty series returns, a val of no known
   kind raises, and otherwise the loop starts at i = 0 *)
Call_import_ts_in_db ==
    /\ pc = "call" /\ op = "import_ts_in_db"
    /\ IF args.time_series.rows = <<>>
       THEN pc' = "done" /\ out' = Return(None)
       ELSE IF IsRaise(_hs_to_timestream_type(args.time_series.rows[1].val))
            THEN pc' = "done" /\ out' = _hs_to_timestream_type(args.time_series.rows[1].val)
            ELSE pc' = "write" /\ out' = out
    /\ UNCHANGED <<op, args, log, calls, decoded, loop_i>>

(* One turn of the loop, the service accepting the batch; i takes the next
   value of range(0, len(records), MAX_ROWS_BY_WRITE) *)
WriteAccepted ==
    /\ pc = "write"
    /\ calls' = Append(calls, write_records(args.self, args.time_series, args.entity_id, args.customer_id, loop_i))
    /\ log' = Append(log, StatusLog)
    /\ loop_i' = loop_i + MAX_ROWS_BY_WRITE
    /\ IF loop_i + MAX_ROWS_BY_WRITE < Len(args.time_series.rows)
       THEN pc' = "write" /\ out' = out
       ELSE pc' = "done" /\ out' = Return(None)
    /\ UNCHANGED <<op, args, decoded>>

(* The handler of RejectedRecordsException without its `raise` *)
Handle_NoRaise(err) == Return(None)

(* The handler of RejectedRecordsException ends with `raise`: the outcome of
   the call is the exception *)
Handle(err) == Raise(err)

(* One turn of the loop, the service rejecting records of the batch: the
   handler logs them and the exception leaves the call *)
WriteRejected ==
    /\ pc = "write"
    /\ \E rejected \in RejectedIndexes(Len(Slice(args.time_series.rows, loop_i))) :
          /\ log' = log \o RejectedLog(args.time_series,
                       RejectedRecordsException([k \in 1..Len(rejected) |-> [RecordIndex |-> rejected[k], Reason |-> "rejected"]]))
          /\ out' = Handle(RejectedRecordsException([k \in 1..Len(rejected) |-> [RecordIndex |-> rejected[k], Reason |-> "rejected"]]))
    /\ calls' = Append(calls, write_records(args.self, args.time_series, args.entity_id, args.customer_id, loop_i))
    /\ pc' = "done"
    /\ UNCHANGED <<op, args, decoded, loop_i>>

(* One turn of the loop, write_records raising another exception, which no
   handler catches *)
WriteFailed ==
    /\ pc = "write"
    /\ calls' = Append(calls, write_records(args.self, args.time_series, args.entity_id, args.customer_id, loop_i))
    /\ pc' = "done"
    /\ out' = Raise(ClientError)
    /\ UNCHANGED <<op, args, log, decoded, loop_i>>

TsNext ==
    \/ Call_hs_to_timestream_type
    \/ Call_cast_timeserie_to_hs
    \/ Call_import_ts_in_db
    \/ WriteAccepted
    \/ WriteRejected
    \/ WriteFailed

TsSpec == TsInit /\ [][TsNext]_vars

----------------------------------------------------------------------------
(* C11: for every value of a kind the write path accepts, decoding with
   _cast_timeserie_to_hs the text stored by the cast function that
   _hs_to_timestream_type chose, under the recorded type name and unit,
   returns the original value: the same kind and an equal value, with the
   microsecond and UTC offset of a datetime, the fields of a time, the display
   value of a Ref and the unit of a Quantity. *)
C11_EncodingReversible ==
    Done("_cast_timeserie_to_hs") => out = Return(args.value)


----------------------------------------------------------------------------
(* Vocabulary of the properties of import_ts_in_db *)

TheRows == args.time_series.rows

FirstVal == TheRows[1].val

(* The text stored for a val by the cast function chosen for the val itself *)
OwnEncoding(val) == Cast(_hs_to_timestream_type(val).value.cast_fn, val)

(* The row of the series that record k of call j stands for *)
RowOf(j, k) == TheRows[(j - 1) * MAX_ROWS_BY_WRITE + k]

(* The Time of the record of a row: the rows of a series have distinct ts *)
TimeOf_Row(row) == Str(WideStr(TimestampMicros(row.ts)))

(* ceil(n / MAX_ROWS_BY_WRITE) *)
Batches(n) == (n + MAX_ROWS_BY_WRITE - 1) \div MAX_ROWS_BY_WRITE

AllRecords == Concat([j \in 1..Len(calls) |-> calls[j].Records])

----------------------------------------------------------------------------
(* C12: in import_ts_in_db the type name, the unit and the storage type of
   every write are those of the first row's val, and the measure value of the
   record of every row of the first row's kind, XStr included, is the encoding
   of that row's own val: two rows of different payloads give records of those
   two payloads. *)
C12_RowsEncodeOwnVal ==
    op = "import_ts_in_db" =>
        \A j \in 1..Len(calls) :
            /\ calls[j].CommonAttributes.Dimensions[2] = Dimension("hs_type", TypeName(FirstVal))
            /\ calls[j].CommonAttributes.Dimensions[3] = Dimension("unit", Unit(FirstVal))
            /\ calls[j].CommonAttributes.MeasureValueType = _hs_to_timestream_type(FirstVal).value.target_type
            /\ \A k \in 1..Len(calls[j].Records) :
                  RowOf(j, k).val.type = FirstVal.type =>
                      calls[j].Records[k].MeasureValue = OwnEncoding(RowOf(j, k).val)

----------------------------------------------------------------------------
(* C13: when import_ts_in_db returns, every write accepted, it has made
   ceil(n / MAX_ROWS_BY_WRITE) write_records calls for a series of n rows, each
   of 1 to MAX_ROWS_BY_WRITE records, and the records of the calls, in call
   order, are one record per row in row order; for n = 0 it makes no call. *)
C13_BatchesCoverRows ==
    (Done("import_ts_in_db") /\ IsReturn(out)) =>
        /\ Len(calls) = Batches(Len(TheRows))
        /\ \A j \in 1..Len(calls) :
              Len(calls[j].Records) >= 1 /\ Len(calls[j].Records) <= MAX_ROWS_BY_WRITE
        /\ Len(AllRecords) = Len(TheRows)
        /\ \A k \in 1..Len(TheRows) : AllRecords[k].Time = TimeOf_Row(TheRows[k])
        /\ TheRows = <<>> => calls = <<>>

(* A series of two full batches and one row more, written in three calls *)
C13_Witness ==
    /\ Done("import_ts_in_db") /\ IsReturn(out)
    /\ Len(TheRows) = 2 * MAX_ROWS_BY_WRITE + 1
    /\ Len(calls) = 3
    /\ Len(calls[3].Records) = 1

----------------------------------------------------------------------------
(* Vocabulary of C14 *)

IsRejectedLine(entry) == entry.level = "error"

HasRejection == \E k \in 1..Len(log) : IsRejectedLine(log[k])

(* The turns of the loop whose write was accepted *)
Accepted == Cardinality({k \in 1..Len(log) : log[k].level = "debug"})

(* C14: when the service rejects records of batch j, import_ts_in_db logs the
   rejected records and raises the RejectedRecordsException to its caller; it
   makes no write_records call after that of batch j, and the calls made are
   those of batches 1 to j, each once and in order. *)
C14_RejectionStopsWrites ==
    (op = "import_ts_in_db" /\ HasRejection) =>
        /\ pc = "done"
        /\ IsRaise(out) /\ out.exc.cls = "RejectedRecordsException"
        /\ \A k \in 1..Accepted : log[k].level = "debug"
        /\ SubSeq(log, Accepted + 1, Len(log)) = RejectedLog(args.time_series, out.exc)
        /\ Len(calls) = Accepted + 1
        /\ \A j \in 1..Len(calls) :
              calls[j] = write_records(args.self, args.time_series, args.entity_id, args.customer_id,
                                       (j - 1) * MAX_ROWS_BY_WRITE)

(* The second of three batches is rejected: two calls were made, the third
   batch was never sent *)
C14_Witness ==
    /\ Done("import_ts_in_db") /\ HasRejection
    /\ Len(TheRows) = 2 * MAX_ROWS_BY_WRITE + 1
    /\ Len(calls) = 2
    /\ IsRaise(out) /\ Len(out.exc.response.RejectedRecords) = 2

====
